---- MODULE Spec2Model ----
(***************************************************************************)
(* The turn-based combat simulator of aoc15 (src/aoc15/src/main.rs).       *)
(* A map text is parsed into a Board (a dense row-major vector of          *)
(* entities and a width); Board::simulate then runs rounds: the turn order *)
(* is taken once per round and every slot of it is processed in order.     *)
(* One step of the model is one slot of the inner for loop, or one of the  *)
(* loop's bookkeeping steps (parse, start of round, end of round).         *)
(***************************************************************************)
EXTENDS Integers, Sequences, FiniteSets, TLC

VARIABLES
    input,        \* the map text handed to from_str, a sequence of characters
    pc,           \* position of the program
    entities,     \* Board::entities, a function on 0..len-1
    width,        \* Board::width
    turn_order,   \* simulate's turn_order vector
    idx,          \* index (from 1) of the next slot of turn_order to process
    round,        \* simulate's round counter
    pathfinding,  \* simulate's pathfinding vector
    last,         \* what the last processed slot did (the trace line printed)
    result,       \* the triple simulate returns
    acted         \* history: the cells of the units that took a turn this round

vars == <<input, pc, entities, width, turn_order, idx, round, pathfinding, last, result, acted>>

----------------------------------------------------------------------------
(* Program constants *)

UNREACHABLE == 255
DIRECTIONS == <<"North", "West", "East", "South">>
HP == 200
AP == 3

(* Option<Position>::None *)
NoPos == -1

(* Bounds of the model *)
Cols == 4
MaxRound == 70

----------------------------------------------------------------------------
(* Entities *)

Empty == [kind |-> "Empty", hp |-> 0]
Wall == [kind |-> "Wall", hp |-> 0]
Elf(hp) == [kind |-> "Elf", hp |-> hp]
Goblin(hp) == [kind |-> "Goblin", hp |-> hp]

IsUnit(e) == e.kind \in {"Elf", "Goblin"}

(* an enemy test that takes every unit for an enemy *)
IsEnemyAnyUnit(e, elf) == IsUnit(e)

(* the match arms (Goblin, true) | (Elf, false) *)
IsEnemy(e, elf) == (e.kind = "Goblin" /\ elf) \/ (e.kind = "Elf" /\ ~elf)

Size(ent) == Cardinality(DOMAIN ent)

(* hit with a wrapping subtraction and no test of the overflow flag *)
HitWrapping(hp) ==
    LET new == (hp - AP) % 256
    IN  [hp |-> new, dead |-> new = 0]

(* HitPoints::hit: an 8-bit overflowing_sub of AP *)
Hit(hp) ==
    LET new == (hp - AP) % 256
        overflow == hp < AP
    IN  IF new = 0 \/ overflow
        THEN [hp |-> 0, dead |-> TRUE]
        ELSE [hp |-> new, dead |-> FALSE]

(* Position::to *)
To(position, w, direction) ==
    CASE direction = "North" -> IF position >= w THEN position - w ELSE NoPos
      [] direction = "West" -> IF position % w # 0 THEN position - 1 ELSE NoPos
      [] direction = "East" -> IF position % w # w - 1 THEN position + 1 ELSE NoPos
      [] direction = "South" -> position + w

(* Iterator::min_by_key: the index of the first element with the least key *)
MinByKey(s) ==
    CHOOSE i \in 1..Len(s) :
        /\ \A j \in 1..Len(s) : s[j].key >= s[i].key
        /\ \A j \in 1..(i - 1) : s[j].key > s[i].key

----------------------------------------------------------------------------
(* Parsing *)

(* the width found by from_str: the index of the first newline *)
ParseWidth(s) ==
    IF \E i \in 1..Len(s) : s[i] = "\n"
    THEN (CHOOSE i \in 1..Len(s) : s[i] = "\n" /\ \A j \in 1..(i - 1) : s[j] # "\n") - 1
    ELSE Len(s)

(* a check that stops at the end of the first line *)
ParseInvalidFirstLine(s) ==
    \E i \in 1..Len(s) :
        /\ s[i] \notin {".", "#", "G", "E", "\n"}
        /\ \A j \in 1..i : s[j] # "\n"

(* the find_map of from_str: some byte is none of the five accepted *)
ParseInvalid(s) == \E i \in 1..Len(s) : s[i] \notin {".", "#", "G", "E", "\n"}

(* an entity table with the factions exchanged *)
FromCharSwapped(c) ==
    CASE c = "." -> Empty
      [] c = "#" -> Wall
      [] c = "G" -> Elf(HP)
      [] c = "E" -> Goblin(HP)

FromChar(c) ==
    CASE c = "." -> Empty
      [] c = "#" -> Wall
      [] c = "G" -> Goblin(HP)
      [] c = "E" -> Elf(HP)

ParseEntities(s) ==
    \* filter_map keeps the four map characters and drops every other byte
    LET cells == SelectSeq(s, LAMBDA c : c \in {".", "#", "G", "E"})
    IN  [i \in 0..(Len(cells) - 1) |-> FromChar(cells[i + 1])]

----------------------------------------------------------------------------
(* Board *)

(* Board::calculate_turn_order: the indices of the units, ascending *)
RECURSIVE TurnOrderFrom(_, _)
TurnOrderFrom(ent, i) ==
    IF i >= Size(ent) THEN <<>>
    ELSE (IF IsUnit(ent[i]) THEN <<i>> ELSE <<>>) \o TurnOrderFrom(ent, i + 1)

(* the turn order taken from the last cell to the first *)
CalculateTurnOrderDescending(ent) ==
    LET s == TurnOrderFrom(ent, 0) IN [i \in 1..Len(s) |-> s[Len(s) + 1 - i]]

CalculateTurnOrder(ent) == TurnOrderFrom(ent, 0)

(* a copy that leaves the unit behind *)
MoveToCopy(ent, old, new) == [ent EXCEPT ![new] = ent[old]]

(* Board::move_to *)
MoveTo(ent, old, new) == [ent EXCEPT ![old] = ent[new], ![new] = ent[old]]

(* attack that leaves a Wall where the victim died *)
AttackLeavesWall(ent, position) ==
    LET h == Hit(ent[position].hp)
    IN  IF h.dead
        THEN [ent EXCEPT ![position] = Wall]
        ELSE [ent EXCEPT ![position] = [kind |-> ent[position].kind, hp |-> h.hp]]

(* attack that removes the victim whatever hit reports *)
AttackAlwaysDies(ent, position) == [ent EXCEPT ![position] = Empty]

(* attack that leaves the victim on its cell when hit reports its death *)
AttackWithoutDeath(ent, position) ==
    [ent EXCEPT ![position] = [kind |-> ent[position].kind, hp |-> Hit(ent[position].hp).hp]]

(* Board::attack, for a position that holds a unit *)
Attack(ent, position) ==
    LET h == Hit(ent[position].hp)
    IN  IF h.dead
        THEN [ent EXCEPT ![position] = Empty]
        ELSE [ent EXCEPT ![position] = [kind |-> ent[position].kind, hp |-> h.hp]]

(* the neighbours pick_action looks at, in DIRECTIONS order *)
Neighbours(position, w) == [k \in 1..4 |-> To(position, w, DIRECTIONS[k])]

(* pick_action that prefers a move to an attack *)
PickActionMovesFirst(ent, w, position) ==
    IF ~IsUnit(ent[position]) THEN [kind |-> "Wait", target |-> NoPos]
    ELSE
    LET elf == ent[position].kind = "Elf"
        nb == Neighbours(position, w)
        some == SelectSeq(<<1, 2, 3, 4>>, LAMBDA k : nb[k] # NoPos)
    IN  IF \E k \in 1..4 : nb[k] # NoPos /\ nb[k] >= Size(ent)
        THEN [kind |-> "Panic", target |-> NoPos]
        ELSE
        LET enemies == SelectSeq(some, LAMBDA k : IsEnemy(ent[nb[k]], elf))
            cands == [j \in 1..Len(enemies) |->
                         [key |-> ent[nb[enemies[j]]].hp, position |-> position]]
            can_move == \E j \in 1..Len(some) : ent[nb[some[j]]] = Empty
        IN  IF can_move THEN [kind |-> "Move", target |-> NoPos]
            ELSE IF Len(cands) > 0
            THEN [kind |-> "Attack", target |-> cands[MinByKey(cands)].position]
            ELSE [kind |-> "Wait", target |-> NoPos]

(* pick_action with the attacked neighbour's position in the tuple *)
PickActionHitsNeighbour(ent, w, position) ==
    IF ~IsUnit(ent[position]) THEN [kind |-> "Wait", target |-> NoPos]
    ELSE
    LET elf == ent[position].kind = "Elf"
        nb == Neighbours(position, w)
        some == SelectSeq(<<1, 2, 3, 4>>, LAMBDA k : nb[k] # NoPos)
    IN  IF \E k \in 1..4 : nb[k] # NoPos /\ nb[k] >= Size(ent)
        THEN [kind |-> "Panic", target |-> NoPos]
        ELSE
        LET enemies == SelectSeq(some, LAMBDA k : IsEnemy(ent[nb[k]], elf))
            cands == [j \in 1..Len(enemies) |->
                         [key |-> ent[nb[enemies[j]]].hp, position |-> nb[enemies[j]]]]
            can_move == \E j \in 1..Len(some) : ent[nb[some[j]]] = Empty
        IN  IF Len(cands) > 0
            THEN [kind |-> "Attack", target |-> cands[MinByKey(cands)].position]
            ELSE IF can_move THEN [kind |-> "Move", target |-> NoPos]
            ELSE [kind |-> "Wait", target |-> NoPos]

(* Board::pick_action *)
PickAction(ent, w, position) ==
    IF ~IsUnit(ent[position]) THEN [kind |-> "Wait", target |-> NoPos]
    ELSE
    LET elf == ent[position].kind = "Elf"
        nb == Neighbours(position, w)
        some == SelectSeq(<<1, 2, 3, 4>>, LAMBDA k : nb[k] # NoPos)
    IN  IF \E k \in 1..4 : nb[k] # NoPos /\ nb[k] >= Size(ent)
        THEN [kind |-> "Panic", target |-> NoPos]
        ELSE
        LET enemies == SelectSeq(some, LAMBDA k : IsEnemy(ent[nb[k]], elf))
            \* the tuple (hp, position) of the source: position is the acting unit's
            cands == [j \in 1..Len(enemies) |->
                         [key |-> ent[nb[enemies[j]]].hp, position |-> position]]
            can_move == \E j \in 1..Len(some) : ent[nb[some[j]]] = Empty
        IN  IF Len(cands) > 0
            THEN [kind |-> "Attack", target |-> cands[MinByKey(cands)].position]
            ELSE IF can_move THEN [kind |-> "Move", target |-> NoPos]
            ELSE [kind |-> "Wait", target |-> NoPos]

(* Board::calculate_path: the recursive flood fill; ok is FALSE when an index
   out of the vector's range aborts it *)
RECURSIVE CalculatePath(_, _, _, _, _), CalculatePathDirs(_, _, _, _, _, _)
CalculatePath(ent, w, position, distance, pf) ==
    CalculatePathDirs(ent, w, position, distance,
                      [pf |-> [pf.pf EXCEPT ![position] = distance], ok |-> pf.ok], 1)

CalculatePathDirs(ent, w, position, distance, pf, k) ==
    IF k > 4 \/ ~pf.ok THEN pf
    ELSE
    LET q == To(position, w, DIRECTIONS[k])
    IN  IF q = NoPos THEN CalculatePathDirs(ent, w, position, distance, pf, k + 1)
        ELSE IF q >= Size(ent) THEN [pf |-> pf.pf, ok |-> FALSE]
        ELSE IF ent[q] = Empty /\ pf.pf[q] > distance + 1
        THEN CalculatePathDirs(ent, w, position, distance,
                               CalculatePath(ent, w, q, distance + 1, pf), k + 1)
        ELSE CalculatePathDirs(ent, w, position, distance, pf, k + 1)

(* paths computed on the board the run started from *)
UpdatePathsOnFirstBoard(ent, w, position) ==
    CalculatePath(ParseEntities(input), w, position, 0,
                  [pf |-> [i \in DOMAIN ent |-> UNREACHABLE], ok |-> TRUE])

(* Board::update_paths *)
UpdatePaths(ent, w, position) ==
    CalculatePath(ent, w, position, 0,
                  [pf |-> [i \in DOMAIN ent |-> UNREACHABLE], ok |-> TRUE])

(* Board::remaining_hp *)
RECURSIVE RemainingHpFrom(_, _)
RemainingHpFrom(ent, i) ==
    IF i >= Size(ent) THEN 0
    ELSE (IF IsUnit(ent[i]) THEN ent[i].hp ELSE 0) + RemainingHpFrom(ent, i + 1)

(* the sum started one cell late *)
RemainingHpSkippingFirst(ent) == RemainingHpFrom(ent, 1)

RemainingHp(ent) == RemainingHpFrom(ent, 0)

(* the iterator of find_closest_target: for every enemy in index order, its
   Empty neighbours in DIRECTIONS order, each with its recorded distance *)
InRangeCells(ent, w, elf, pf) ==
    LET n == Size(ent)
        all == [j \in 1..(4 * n) |->
                   [enemy |-> (j - 1) \div 4,
                    position |-> To((j - 1) \div 4, w, DIRECTIONS[((j - 1) % 4) + 1])]]
        kept == SelectSeq(all, LAMBDA x :
                    /\ IsEnemy(ent[x.enemy], elf)
                    /\ x.position # NoPos
                    /\ x.position < n
                    /\ ent[x.position] = Empty)
    IN  [j \in 1..Len(kept) |-> [position |-> kept[j].position, key |-> pf[kept[j].position]]]

(* an enemy's neighbour index beyond the vector aborts find_closest_target *)
InRangeOutOfBounds(ent, w, elf) ==
    \E i \in DOMAIN ent : \E k \in 1..4 :
        /\ IsEnemy(ent[i], elf)
        /\ To(i, w, DIRECTIONS[k]) # NoPos
        /\ To(i, w, DIRECTIONS[k]) >= Size(ent)

(* Board::find_closest_target, for a position that holds a unit *)
FindClosestTarget(ent, w, position, pf) ==
    LET elf == ent[position].kind = "Elf"
    IN  IF InRangeOutOfBounds(ent, w, elf) THEN [kind |-> "Panic", position |-> NoPos]
        ELSE
        LET cells == InRangeCells(ent, w, elf, pf)
        IN  IF Len(cells) = 0 THEN [kind |-> "NotFound", position |-> NoPos]
            ELSE IF cells[MinByKey(cells)].key = UNREACHABLE
            THEN [kind |-> "Unreachable", position |-> NoPos]
            ELSE [kind |-> "Found", position |-> cells[MinByKey(cells)].position]

(* a back-trace that stops at once: the unit is sent to the target itself *)
FindPathToTargetJumps(w, target, pf) == target

(* Board::find_path_to_target: walks back from the target along least
   recorded distances; NoPos when an index out of range aborts it *)
RECURSIVE FindPathToTarget(_, _, _)
FindPathToTarget(w, target, pf) ==
    LET n == Size(pf)
        nb == Neighbours(target, w)
        some == SelectSeq(<<1, 2, 3, 4>>, LAMBDA k : nb[k] # NoPos)
    IN  IF \E k \in 1..4 : nb[k] # NoPos /\ nb[k] >= n THEN NoPos
        ELSE
        LET cands == [j \in 1..Len(some) |-> [position |-> nb[some[j]], key |-> pf[nb[some[j]]]]]
            best == cands[MinByKey(cands)]
        IN  IF best.key = 0 THEN target
            ELSE FindPathToTarget(w, best.position, pf)

----------------------------------------------------------------------------
(* The map texts the model runs on *)

Chars == {".", "#", "G", "E"}

RECURSIVE Text(_)
(* the text of a map given as its lines, each followed by a newline *)
Text(rows) == IF rows = <<>> THEN <<>> ELSE Head(rows) \o <<"\n">> \o Text(Tail(rows))

(* every one-row map of Cols cells standing on a row of walls *)
CorridorMaps == { Text(<<row, [i \in 1..Cols |-> "#"]>>) : row \in [1..Cols -> Chars] }

(* two in-range cells at the same distance from the Goblin *)
TargetTieMap ==
    Text(<< <<"#", "G", ".">>,
            <<"E", ".", "E">>,
            <<"#", "#", "#">> >>)

(* once the Elf has stepped East, two shortest paths lead the Goblin to the
   cell under it *)
StepTieMap ==
    Text(<< <<"E", ".", "#">>,
            <<"#", ".", ".">>,
            <<".", ".", ".">>,
            <<".", "#", ".">>,
            <<".", "G", ".">>,
            <<"#", "#", "#">> >>)

(* a Goblin with no Empty neighbour and an Elf that can move *)
BlockedEnemyMap ==
    Text(<< <<"G", "#", "E", ".">>,
            <<"#", "#", "#", "#">> >>)

(* an open arena with several shortest paths *)
ArenaMap ==
    Text(<< <<"G", ".", ".">>,
            <<".", ".", ".">>,
            <<".", ".", "E">>,
            <<"#", "#", "#">> >>)

(* a Goblin that waits behind another Goblin for a way to the Elf *)
SuccessorMap ==
    Text(<< <<"#", "E", ".">>,
            <<"G", "G", ".">>,
            <<"#", "#", "#">> >>)

(* the factions walled off from each other, each with room to move *)
WalledOffMap ==
    Text(<< <<"G", ".", "#", ".", "E">>,
            <<"#", "#", "#", "#", "#">> >>)

(* two units above a last row that has an Empty cell, which is reached
   only after the cell over it is vacated *)
OpenFloorMap ==
    Text(<< <<"#", "G", "#">>,
            <<"G", "E", "#">>,
            <<"#", ".", "#">> >>)

(* one row and no newline: the units stand on the last row *)
LastRowMap == <<"G", ".", "E">>

(* a character from_str rejects *)
InvalidMap == Text(<< <<"G", ".", "E">>, <<"#", "x", "#">> >>)

(* the characters outside the map alphabet that the texts are drawn from *)
Foreign == {"x", " "}

(* every one-row map with at least one foreign character *)
InvalidMaps ==
    { Text(<<row, [i \in 1..Cols |-> "#"]>>) :
        row \in {r \in [1..Cols -> Chars \cup Foreign] : \E i \in 1..Cols : r[i] \in Foreign} }

(* lines of different lengths *)
RaggedMap == Text(<< <<"G", ".", "E">>, <<"#", "#">> >>)

EmptyMap == <<>>

ScenarioMaps ==
    {TargetTieMap, StepTieMap, BlockedEnemyMap, ArenaMap, SuccessorMap, WalledOffMap,
     OpenFloorMap, LastRowMap,
     InvalidMap, RaggedMap, EmptyMap}

Maps == CorridorMaps \cup InvalidMaps \cup ScenarioMaps

----------------------------------------------------------------------------
(* The program *)

NoAction == [kind |-> "None", position |-> NoPos, target |-> NoPos, step |-> NoPos]
NoResult == [round |-> 0, hp |-> 0, elf_victory |-> FALSE]

Init ==
    /\ input \in Maps
    /\ pc = "parse"
    /\ entities = <<>>
    /\ width = 0
    /\ turn_order = <<>>
    /\ idx = 1
    /\ round = 0
    /\ pathfinding = <<>>
    /\ last = NoAction
    /\ result = NoResult
    /\ acted = {}

(* from_str, and the start of simulate on the Board it returns *)
Parse ==
    /\ pc = "parse"
    /\ ~ParseInvalid(input)
    /\ entities' = ParseEntities(input)
    /\ width' = ParseWidth(input)
    /\ pathfinding' = [i \in DOMAIN ParseEntities(input) |-> 0]
    /\ pc' = "round"
    /\ UNCHANGED <<input, turn_order, idx, round, last, result, acted>>

(* from_str returning Err: main returns before simulate *)
ParseError ==
    /\ pc = "parse"
    /\ ParseInvalid(input)
    /\ pc' = "error"
    /\ UNCHANGED <<input, entities, width, turn_order, idx, round, pathfinding, last, result, acted>>

(* the head of the outer loop: the turn order is taken, then the board is
   printed by rows of width cells, which aborts for a width of 0 *)
RoundStart ==
    /\ pc = "round"
    /\ turn_order' = CalculateTurnOrder(entities)
    /\ idx' = 1
    /\ pc' = IF width = 0 THEN "panic" ELSE "turns"
    /\ acted' = {}
    /\ UNCHANGED <<input, entities, width, round, pathfinding, last, result>>

InTurn == pc = "turns" /\ idx <= Len(turn_order)

(* history: the unit of cell from has taken its turn and now stands on cell
   to of the board ent; the cells of removed units are dropped *)
Acted(ent, from, to) ==
    {q \in (acted \ {from}) \cup {to} : IsUnit(ent[q])}

(* the slot has nothing to do: its unit died, or it has no Empty neighbour *)
TurnWait ==
    /\ InTurn
    /\ LET position == turn_order[idx]
           action == PickAction(entities, width, position)
       IN  /\ action.kind = "Wait"
           /\ last' = [kind |-> "Wait", position |-> position, target |-> NoPos, step |-> NoPos]
           /\ acted' = Acted(entities, position, position)
    /\ idx' = idx + 1
    /\ UNCHANGED <<input, pc, entities, width, turn_order, round, pathfinding, result>>

TurnAttack ==
    /\ InTurn
    /\ LET position == turn_order[idx]
           action == PickAction(entities, width, position)
       IN  /\ action.kind = "Attack"
           /\ last' = [kind |-> "Attack", position |-> position,
                       target |-> action.target, step |-> NoPos]
           /\ IF IsUnit(entities[action.target])
              THEN entities' = Attack(entities, action.target) /\ pc' = pc
              ELSE entities' = entities /\ pc' = "panic"
           /\ acted' = Acted(entities', position, position)
    /\ idx' = idx + 1
    /\ UNCHANGED <<input, width, turn_order, round, pathfinding, result>>

TurnMove ==
    /\ InTurn
    /\ LET position == turn_order[idx]
           action == PickAction(entities, width, position)
           paths == UpdatePaths(entities, width, position)
           target == FindClosestTarget(entities, width, position, paths.pf)
           step == FindPathToTarget(width, target.position, paths.pf)
       IN  /\ action.kind = "Move"
           /\ paths.ok
           /\ target.kind = "Found"
           /\ step # NoPos
           /\ entities' = MoveTo(entities, position, step)
           /\ pathfinding' = paths.pf
           /\ last' = [kind |-> "Move", position |-> position,
                       target |-> target.position, step |-> step]
           /\ acted' = Acted(entities', position, step)
    /\ idx' = idx + 1
    /\ UNCHANGED <<input, pc, width, turn_order, round, result>>

TurnUnreachable ==
    /\ InTurn
    /\ LET position == turn_order[idx]
           action == PickAction(entities, width, position)
           paths == UpdatePaths(entities, width, position)
           target == FindClosestTarget(entities, width, position, paths.pf)
       IN  /\ action.kind = "Move"
           /\ paths.ok
           /\ target.kind = "Unreachable"
           /\ pathfinding' = paths.pf
           /\ last' = [kind |-> "Unreachable", position |-> position,
                       target |-> NoPos, step |-> NoPos]
           /\ acted' = Acted(entities, position, position)
    /\ idx' = idx + 1
    /\ UNCHANGED <<input, pc, entities, width, turn_order, round, result>>

(* break 'outer: simulate returns (round, hp, elf_victory) *)
TurnNotFound ==
    /\ InTurn
    /\ LET position == turn_order[idx]
           action == PickAction(entities, width, position)
           paths == UpdatePaths(entities, width, position)
           target == FindClosestTarget(entities, width, position, paths.pf)
       IN  /\ action.kind = "Move"
           /\ paths.ok
           /\ target.kind = "NotFound"
           /\ pathfinding' = paths.pf
           /\ last' = [kind |-> "NotFound", position |-> position,
                       target |-> NoPos, step |-> NoPos]
           /\ result' = [round |-> round, hp |-> RemainingHp(entities),
                         elf_victory |-> entities[position].kind = "Elf"]
           /\ acted' = Acted(entities, position, position)
    /\ pc' = "done"
    /\ UNCHANGED <<input, entities, width, turn_order, idx, round>>

(* an index beyond the vector aborts the program *)
TurnPanic ==
    /\ InTurn
    /\ LET position == turn_order[idx]
           action == PickAction(entities, width, position)
           paths == UpdatePaths(entities, width, position)
           target == FindClosestTarget(entities, width, position, paths.pf)
       IN  /\ \/ action.kind = "Panic"
              \/ action.kind = "Move" /\ ~paths.ok
              \/ action.kind = "Move" /\ paths.ok /\ target.kind = "Panic"
              \/ /\ action.kind = "Move" /\ paths.ok /\ target.kind = "Found"
                 /\ FindPathToTarget(width, target.position, paths.pf) = NoPos
           /\ last' = [kind |-> "Panic", position |-> position,
                       target |-> NoPos, step |-> NoPos]
           /\ acted' = Acted(entities, position, position)
    /\ pc' = "panic"
    /\ UNCHANGED <<input, entities, width, turn_order, idx, round, pathfinding, result>>

(* a round counter that may advance while slots are still to be processed *)
RoundEndEarly ==
    /\ pc = "turns"
    /\ round < MaxRound
    /\ round' = round + 1
    /\ pc' = "round"
    /\ UNCHANGED <<input, entities, width, turn_order, idx, pathfinding, last, result, acted>>

(* the for loop is over: round += 1 and the outer loop starts again *)
RoundEnd ==
    /\ pc = "turns"
    /\ idx > Len(turn_order)
    /\ round < MaxRound
    /\ round' = round + 1
    /\ pc' = "round"
    /\ UNCHANGED <<input, entities, width, turn_order, idx, pathfinding, last, result, acted>>

Next ==
    \/ Parse
    \/ ParseError
    \/ RoundStart
    \/ TurnWait
    \/ TurnAttack
    \/ TurnMove
    \/ TurnUnreachable
    \/ TurnNotFound
    \/ TurnPanic
    \/ RoundEnd

Spec == Init /\ [][Next]_vars

----------------------------------------------------------------------------
(* Notions the properties are stated in, defined on the grid itself *)

(* two cells that share a side *)
Adjacent(w, p, q) ==
    \/ (p \div w) = (q \div w) /\ ((p % w) = (q % w) + 1 \/ (q % w) = (p % w) + 1)
    \/ (p % w) = (q % w) /\ ((p \div w) = (q \div w) + 1 \/ (q \div w) = (p \div w) + 1)

(* the units of the faction opposed to kind that share a side with cell *)
EnemiesAround(ent, w, kind, cell) ==
    {q \in DOMAIN ent : IsUnit(ent[q]) /\ ent[q].kind # kind /\ Adjacent(w, cell, q)}

(* the first position of a non-empty set in reading order (row-major index) *)
ReadingFirst(S) == CHOOSE q \in S : \A r \in S : q <= r

(* the units that lost hit points or were removed between two boards *)
Damaged(ent, ent2) ==
    {q \in DOMAIN ent : IsUnit(ent[q]) /\ (~IsUnit(ent2[q]) \/ ent2[q].hp < ent[q].hp)}

Alive(ent, kind) == {q \in DOMAIN ent : ent[q].kind = kind}

RECURSIVE SumHp(_, _)
SumHp(ent, S) ==
    IF S = {} THEN 0
    ELSE LET q == CHOOSE x \in S : TRUE IN ent[q].hp + SumHp(ent, S \ {q})

(* breadth-first distances from src through Empty cells; Size(ent) stands
   for no path *)
RECURSIVE BfsFrom(_, _, _, _, _)
BfsFrom(ent, w, frontier, d, dist) ==
    IF frontier = {} THEN dist
    ELSE LET next == {q \in DOMAIN ent :
                         /\ ent[q] = Empty
                         /\ dist[q] = Size(ent)
                         /\ \E p \in frontier : Adjacent(w, p, q)}
         IN  BfsFrom(ent, w, next, d + 1,
                     [q \in DOMAIN ent |-> IF q \in next THEN d + 1 ELSE dist[q]])

Distances(ent, w, src) ==
    BfsFrom(ent, w, {src}, 0, [q \in DOMAIN ent |-> IF q = src THEN 0 ELSE Size(ent)])

(* the Empty cells that share a side with an enemy of the unit at p *)
InRange(ent, w, p) ==
    {c \in DOMAIN ent : ent[c] = Empty /\ EnemiesAround(ent, w, ent[p].kind, c) # {}}

(* a step of the model that processes one slot of the turn order *)
SlotStep == InTurn /\ (idx' = idx + 1 \/ pc' # pc)

----------------------------------------------------------------------------
(* Properties *)

(* C1: whenever a unit attacks, the unit that loses hit points is an enemy
   that shares a side with the acting unit, and among those enemies it is the
   one with the fewest hit points, the first in reading order among equals *)
C1_AttackHitsWeakestAdjacentEnemy ==
    [][(SlotStep /\ last'.kind = "Attack") =>
        LET p == turn_order[idx]
            adj == EnemiesAround(entities, width, entities[p].kind, p)
            least == {q \in adj : \A r \in adj : entities[q].hp <= entities[r].hp}
        IN  adj # {} /\ Damaged(entities, entities') = {ReadingFirst(least)}]_vars

(* C2: an attack takes exactly AP hit points from the attacked unit,
   stopping at 0; at 0 the unit's cell becomes Empty in the same step,
   otherwise the unit stays on its cell with the reduced hit points *)
C2_AttackSubtractsPower ==
    [][(SlotStep /\ last'.kind = "Attack") =>
        LET t == last'.target
            h == entities[t].hp
        IN  /\ IsUnit(entities[t])
            /\ IF h > AP
               THEN entities'[t] = [kind |-> entities[t].kind, hp |-> h - AP]
               ELSE entities'[t] = Empty]_vars

(* an attack has just removed the unit it hit *)
C2_Witness == pc = "turns" /\ last.kind = "Attack" /\ entities[last.target] = Empty

(* C3: every unit on the grid has between 1 and HP hit points *)
C3_HitPointsInRange ==
    \A p \in DOMAIN entities :
        IsUnit(entities[p]) => entities[p].hp >= 1 /\ entities[p].hp <= HP

(* a unit that has been hit down to fewer than AP hit points is on the grid *)
C3_Witness == \E p \in DOMAIN entities : IsUnit(entities[p]) /\ entities[p].hp < AP

(* C4: a unit that moves next to an enemy attacks in the same turn: some
   enemy beside the cell it stepped into is hit before the next slot *)
C4_MoveThenAttack ==
    [][(SlotStep /\ last'.kind = "Move") =>
        LET p == turn_order[idx]
            adj == EnemiesAround(entities, width, entities[p].kind, last'.step)
        IN  adj # {} => \E q \in adj : entities'[q] # entities[q]]_vars

(* C5: when a living unit begins its turn and no unit of the other faction
   is alive, simulate returns in that turn with the round counter as it is *)
C5_NoEnemyTerminates ==
    [][(InTurn /\ IsUnit(entities[turn_order[idx]])
              /\ \A q \in DOMAIN entities :
                     IsUnit(entities[q]) => entities[q].kind = entities[turn_order[idx]].kind)
        => (pc' = "done" /\ result'.round = round)]_vars

(* C6: simulate returns only when exactly one faction has living units, and
   reports that faction as the winner *)
C6_ReturnsWithOneFaction ==
    pc = "done" =>
        /\ (Alive(entities, "Elf") = {}) # (Alive(entities, "Goblin") = {})
        /\ result.elf_victory = (Alive(entities, "Elf") # {})

(* C7: round grows by one exactly when every slot of a round has been
   processed, never in the step that returns; the round reported is that
   counter and the hit points reported are the sum over the units on the grid *)
C7_ReportedRoundsAndHitPoints ==
    [][/\ round' # round => round' = round + 1 /\ pc = "turns" /\ idx > Len(turn_order)
       /\ (pc = "turns" /\ idx > Len(turn_order) /\ pc' # pc) => round' = round + 1
       /\ (pc' = "done" /\ pc # "done") =>
              /\ InTurn
              /\ round' = round
              /\ result'.round = round
              /\ result'.hp = SumHp(entities', Alive(entities', "Elf") \cup Alive(entities', "Goblin"))
      ]_vars

(* simulate has returned after full rounds and a fight, with a hurt survivor *)
C7_Witness == pc = "done" /\ result.round > 0 /\ result.hp > 0 /\ result.hp < HP

(* C8: the in-range cell a moving unit heads for is, among the in-range
   cells at the least path distance from the unit, the first in reading order *)
C8_TargetFirstInReadingOrder ==
    [][(SlotStep /\ last'.kind = "Move") =>
        LET p == turn_order[idx]
            d == Distances(entities, width, p)
            cells == InRange(entities, width, p)
            nearest == {c \in cells : \A c2 \in cells : d[c] <= d[c2]}
        IN  nearest # {} /\ last'.target = ReadingFirst(nearest)]_vars

(* C9: the cell a moving unit steps into is, among its neighbours that lie on
   a shortest path to the chosen target, the first in reading order *)
C9_StepFirstInReadingOrder ==
    [][(SlotStep /\ last'.kind = "Move") =>
        LET p == turn_order[idx]
            t == last'.target
            fromUnit == Distances(entities, width, p)
            fromTarget == Distances(entities, width, t)
            steps == {n \in DOMAIN entities :
                         /\ Adjacent(width, p, n)
                         /\ entities[n] = Empty
                         /\ fromTarget[n] + 1 = fromUnit[t]}
        IN  steps # {} /\ last'.step = ReadingFirst(steps)]_vars

(* C10: the turn order of a round is the positions of the units alive at
   the start of the round in reading order, taken once before any slot is
   processed and left as it is during the round *)
C10_TurnOrderOncePerRound ==
    [][/\ (pc = "round" /\ pc' = "turns") =>
              /\ \A i \in 1..Len(turn_order') : \A j \in 1..Len(turn_order') :
                     i < j => turn_order'[i] < turn_order'[j]
              /\ {turn_order'[i] : i \in 1..Len(turn_order')} =
                     Alive(entities, "Elf") \cup Alive(entities, "Goblin")
              /\ entities' = entities
       /\ pc = "turns" => turn_order' = turn_order
      ]_vars

(* in the middle of a round of two or more slots, a slot's unit has left its
   cell and the turn order still names that cell *)
C10_Witness ==
    /\ pc = "turns"
    /\ Len(turn_order) >= 2
    /\ idx <= Len(turn_order)
    /\ \E i \in 1..(idx - 1) : entities[turn_order[i]] = Empty

Units(ent) == Alive(ent, "Elf") \cup Alive(ent, "Goblin")

(* C11: in a round, no unit takes a second turn (the cell of a slot that is
   processed holds no unit that has acted this round, wherever it moved),
   and at the end of a completed round every living unit has taken its turn *)
C11_OneTurnPerUnit ==
    [][/\ (SlotStep /\ IsUnit(entities[turn_order[idx]])) => turn_order[idx] \notin acted
       /\ (pc = "turns" /\ pc' = "round") => Units(entities) \subseteq acted
      ]_vars

(* a round has run to completion in which a unit left its cell and the
   slots after its own were processed *)
C11_Witness ==
    /\ pc = "turns"
    /\ idx > Len(turn_order)
    /\ Len(turn_order) >= 2
    /\ \E q \in acted : \A i \in 1..Len(turn_order) : turn_order[i] # q
    /\ entities[turn_order[1]] = Empty

(* C12: once the board is set up, no step raises the sum of the hit points
   of the living units, and the sum is never negative *)
C12_TotalHitPointsNeverGrow ==
    [][pc # "parse" =>
        /\ SumHp(entities', Units(entities')) <= SumHp(entities, Units(entities))
        /\ SumHp(entities', Units(entities')) >= 0]_vars

(* the sum has dropped below the units' full hit points *)
C12_Witness ==
    /\ pc = "turns"
    /\ Units(entities) # {}
    /\ SumHp(entities, Units(entities)) < HP * Cardinality(Units(entities))

(* a board with one Elf and one Goblin that share a side *)
Duel(ent, w) ==
    /\ Cardinality(Alive(ent, "Elf")) = 1
    /\ Cardinality(Alive(ent, "Goblin")) = 1
    /\ \E p \in Alive(ent, "Elf") : \E q \in Alive(ent, "Goblin") : Adjacent(w, p, q)

(* C13: in a duel of two adjacent units every attack is the k-th hit on the
   defender for some k <= 67: the defender goes from HP - AP*(k-1) to
   HP - AP*k (197 after the first attack), and its cell becomes Empty
   exactly at the 67th *)
C13_DefenderLosesThreePerAttack ==
    [][(SlotStep /\ last'.kind = "Attack" /\ Duel(entities, width)) =>
        LET p == turn_order[idx]
            q == CHOOSE x \in EnemiesAround(entities, width, entities[p].kind, p) : TRUE
            Last == (HP \div AP) + 1
        IN  \E k \in 1..Last :
                /\ entities[q].hp = HP - AP * (k - 1)
                /\ entities'[q] = IF k = Last THEN Empty
                                  ELSE [entities[q] EXCEPT !.hp = HP - AP * k]]_vars

(* both factions are present and no unit can reach a cell in range of an
   enemy, nor stands beside one *)
WalledOff(ent, w) ==
    /\ Alive(ent, "Elf") # {}
    /\ Alive(ent, "Goblin") # {}
    /\ \A p \in Units(ent) :
           /\ EnemiesAround(ent, w, ent[p].kind, p) = {}
           /\ \A c \in InRange(ent, w, p) : Distances(ent, w, p)[c] = Size(ent)

(* C14: on a map whose factions are walled off from each other the run ends
   at once: no round is ever completed, so the round counter stays 0, and
   every unit keeps HP hit points *)
C14_WalledOffEndsAtOnce ==
    (pc \in {"round", "turns", "done"} /\ width > 0 /\ WalledOff(ParseEntities(input), ParseWidth(input)))
        => /\ round = 0
           /\ \A p \in Units(entities) : entities[p].hp = HP

(* C15: every run ends. The body of the round loop reads nothing but the
   board, so a round that is completed on the board the run started from
   is repeated for ever; a run that ends never completes such a round *)
C15_NoRoundRepeatsTheStart ==
    [][(pc = "turns" /\ pc' = "round") => entities # ParseEntities(input)]_vars

(* C16: a move takes the acting unit from its cell to a different cell
   that was Empty: afterwards the old cell is Empty, the new cell holds the
   unit with its faction and hit points, every other cell is as before and
   each faction has as many units as before *)
C16_MoveRelocatesOneUnit ==
    [][(SlotStep /\ last'.kind = "Move") =>
        LET p == turn_order[idx]
            s == last'.step
        IN  /\ IsUnit(entities[p])
            /\ s \in DOMAIN entities /\ s # p
            /\ entities[s] = Empty
            /\ entities'[p] = Empty
            /\ entities'[s] = entities[p]
            /\ \A c \in DOMAIN entities \ {p, s} : entities'[c] = entities[c]
            /\ DOMAIN entities' = DOMAIN entities
            /\ \A kind \in {"Elf", "Goblin"} :
                   Cardinality(Alive(entities', kind)) = Cardinality(Alive(entities, kind))]_vars

C16_Witness ==
    /\ pc = "turns"
    /\ last.kind = "Move"
    /\ entities[last.position] = Empty
    /\ IsUnit(entities[last.step])
    /\ entities[last.step].hp < HP

(* C17: once the board is parsed no step adds a unit to either faction;
   a faction loses a unit only in an attack on a unit of that faction
   whose hit points do not exceed AP, and then exactly that one unit *)
C17_UnitsOnlyLostToAttacks ==
    [][pc # "parse" =>
        \A kind \in {"Elf", "Goblin"} :
            LET before == Cardinality(Alive(entities, kind))
                after == Cardinality(Alive(entities', kind))
            IN  /\ after <= before
                /\ after < before =>
                       /\ SlotStep /\ last'.kind = "Attack"
                       /\ after = before - 1
                       /\ entities[last'.target].kind = kind
                       /\ entities[last'.target].hp <= AP
                       /\ entities'[last'.target] = Empty]_vars

C17_Witness ==
    /\ pc = "turns"
    /\ last.kind = "Attack"
    /\ entities[last.target] = Empty
    /\ Cardinality(Units(entities)) = Len(turn_order) - 1
    /\ Units(entities) # {}

(* the text is a non-empty grid over the map characters: every line has
   the length of the first, the last line may lack its newline *)
Rectangular(s) ==
    LET w == ParseWidth(s)
    IN  /\ w > 0
        /\ ~ParseInvalid(s)
        /\ \A i \in 1..Len(s) : (s[i] = "\n") <=> (i % (w + 1) = 0)
        /\ Len(s) % (w + 1) \in {0, w}

(* C18: on a rectangular map no step of the simulation indexes the grid
   outside its cells, so the run is never aborted by an index out of
   bounds *)
C18_NoIndexOutOfBounds ==
    Rectangular(input) => pc # "panic"

(* C19: a unit that begins its turn beside an enemy does not move in that
   turn: the turn is not a move, no other cell changes, and the unit's
   cell keeps the unit unless the attack of that turn removes it *)
C19_AdjacentUnitStays ==
    [][(SlotStep /\ IsUnit(entities[turn_order[idx]])
          /\ EnemiesAround(entities, width, entities[turn_order[idx]].kind, turn_order[idx]) # {})
        => LET p == turn_order[idx]
           IN  /\ last'.kind # "Move"
               /\ \A c \in DOMAIN entities \ {p} : entities'[c] = entities[c]
               /\ entities'[p] = Empty \/ entities'[p].kind = entities[p].kind]_vars

C19_Witness ==
    /\ pc = "turns"
    /\ last.kind = "Attack"
    /\ IsUnit(entities[last.position])
    /\ EnemiesAround(entities, width, entities[last.position].kind, last.position) # {}
    /\ \E c \in DOMAIN entities : Adjacent(width, last.position, c) /\ entities[c] = Empty
    /\ InRange(entities, width, last.position) # {}

(* C20: a unit with no enemy beside it, while enemies are alive and no
   cell in range of them can be reached from it through Empty cells, waits:
   the board is left as it is and the next slot of the round follows *)
C20_UnreachableUnitWaits ==
    [][(/\ SlotStep
        /\ pc' # "panic"
        /\ IsUnit(entities[turn_order[idx]])
        /\ LET p == turn_order[idx]
           IN  /\ EnemiesAround(entities, width, entities[p].kind, p) = {}
               /\ \E q \in Units(entities) : entities[q].kind # entities[p].kind
               /\ \A c \in InRange(entities, width, p) :
                      Distances(entities, width, p)[c] = Size(entities))
        => /\ entities' = entities
           /\ pc' = "turns"
           /\ idx' = idx + 1]_vars

(* C21: a text with a character other than the four map characters and
   the newline is rejected: the run goes from parsing to the error and to
   nothing else, no board is built and no step of the simulation runs *)
C21_ForeignCharacterRejected ==
    (\E i \in 1..Len(input) : input[i] \notin Chars \cup {"\n"})
        => /\ pc \in {"parse", "error"}
           /\ entities = <<>>
           /\ turn_order = <<>>
           /\ round = 0
           /\ last = NoAction
           /\ result = NoResult

C21_Witness ==
    /\ pc = "error"
    /\ \E i \in 1..Len(input) :
           /\ input[i] \notin Chars \cup {"\n"}
           /\ \E j \in 1..(i - 1) : input[j] = "\n"

(* the lines of the text differ in length: some newline is off the
   multiples of the first line's length plus one, or the text ends inside
   a line that is not the first *)
Ragged(s) ==
    LET w == ParseWidth(s)
    IN  \/ \E i \in 1..Len(s) : (s[i] = "\n") # (i % (w + 1) = 0)
        \/ Len(s) % (w + 1) \notin {0, w}

NoNewline(s) == \A i \in 1..Len(s) : s[i] # "\n"

(* C22: a text whose lines differ in length, or that holds no newline, is
   rejected before the simulation starts: no board is built from it *)
C22_MalformedShapeRejected ==
    (Ragged(input) \/ NoNewline(input)) => (pc \in {"parse", "error"} /\ entities = <<>>)

(* the row-major position of the i-th character of a text: the
   characters before it that are not newlines *)
CellOf(s, i) == Cardinality({j \in 1..(i - 1) : s[j] # "\n"})

(* C23: the board built from a map has one cell per map character, at the
   character's row-major position: G a Goblin and E an Elf with 200 hit
   points, '.' an Empty cell, '#' a Wall; and an attack takes 3 hit points *)
C23_InitialStateFromMap ==
    [][/\ (pc = "parse" /\ pc' = "round") =>
            /\ DOMAIN entities' = 0..(Cardinality({i \in 1..Len(input) : input[i] # "\n"}) - 1)
            /\ \A i \in 1..Len(input) :
                   LET e == entities'[CellOf(input, i)]
                   IN  /\ input[i] = "G" => e = [kind |-> "Goblin", hp |-> 200]
                       /\ input[i] = "E" => e = [kind |-> "Elf", hp |-> 200]
                       /\ input[i] = "." => e.kind = "Empty"
                       /\ input[i] = "#" => e.kind = "Wall"
       /\ (SlotStep /\ last'.kind = "Attack") =>
            LET t == last'.target
            IN  IF entities[t].hp > 3
                THEN entities'[t].hp = entities[t].hp - 3
                ELSE ~IsUnit(entities'[t])
      ]_vars

C23_Witness ==
    /\ pc = "round"
    /\ round = 0
    /\ \E p, q, r, s \in DOMAIN entities :
           /\ p < q /\ q < r /\ r < s /\ s >= width
           /\ entities[p] = Wall /\ entities[q] = Elf(HP)
           /\ entities[r] = Empty /\ entities[s] = Goblin(HP)

(* the one outcome the code gives a state: where the program stands, the
   grid, the round counter and the result after the step *)
Outcome ==
    LET same == [pc |-> pc, entities |-> entities, round |-> round, result |-> result]
        aborted == [same EXCEPT !.pc = "panic"]
        p == turn_order[idx]
        action == PickAction(entities, width, p)
        paths == UpdatePaths(entities, width, p)
        target == FindClosestTarget(entities, width, p, paths.pf)
    IN  IF pc = "parse"
        THEN IF ParseInvalid(input) THEN [same EXCEPT !.pc = "error"]
             ELSE [same EXCEPT !.pc = "round", !.entities = ParseEntities(input)]
        ELSE IF pc = "round"
        THEN IF width = 0 THEN aborted ELSE [same EXCEPT !.pc = "turns"]
        ELSE IF pc = "turns" /\ idx > Len(turn_order)
        THEN [same EXCEPT !.pc = "round", !.round = round + 1]
        ELSE IF pc = "turns"
        THEN IF action.kind = "Wait" THEN same
             ELSE IF action.kind = "Attack"
             THEN IF IsUnit(entities[action.target])
                  THEN [same EXCEPT !.entities = Attack(entities, action.target)]
                  ELSE aborted
             ELSE IF action.kind = "Panic" \/ ~paths.ok \/ target.kind = "Panic" THEN aborted
             ELSE IF target.kind = "Unreachable" THEN same
             ELSE IF target.kind = "NotFound"
             THEN [same EXCEPT !.pc = "done",
                               !.result = [round |-> round, hp |-> RemainingHp(entities),
                                           elf_victory |-> entities[p].kind = "Elf"]]
             ELSE IF FindPathToTarget(width, target.position, paths.pf) = NoPos THEN aborted
             ELSE [same EXCEPT !.entities =
                       MoveTo(entities, p, FindPathToTarget(width, target.position, paths.pf))]
        ELSE same

(* C24: the run is determined by the map. The map is the only input, and
   every step leads to the one outcome the state has: the same grid, the
   same round counter and the same result follow from the same state, so
   two runs from one grid pass through the same grids and return alike *)
C24_Deterministic ==
    [][[pc |-> pc', entities |-> entities', round |-> round', result |-> result'] = Outcome]_vars

C24_Witness ==
    /\ pc = "done"
    /\ last.kind = "NotFound"
    /\ result.round > 0
    /\ Cardinality(Units(entities)) >= 2

(* C25: an attack leaves the acting unit as it was and takes hit points
   from units of the opposing faction only *)
C25_AttackSparesTheAttacker ==
    [][(SlotStep /\ last'.kind = "Attack") =>
        LET p == turn_order[idx]
        IN  /\ entities'[p] = entities[p]
            /\ \A q \in Damaged(entities, entities') : entities[q].kind # entities[p].kind]_vars

(* C27: a move takes the unit to an Empty cell that shares a side with
   the cell it leaves (never from the end of a row to the start of the
   next) and that is one step nearer to the chosen target than the cell it
   leaves, along shortest paths through Empty cells *)
C27_MoveIsOneStepCloser ==
    [][(SlotStep /\ last'.kind = "Move") =>
        LET p == turn_order[idx]
            s == last'.step
            t == last'.target
        IN  /\ entities[s] = Empty
            /\ Adjacent(width, p, s)
            /\ Distances(entities, width, p)[t] < Size(entities)
            /\ Distances(entities, width, s)[t] = Distances(entities, width, p)[t] - 1]_vars

C27_Witness ==
    /\ pc = "turns"
    /\ last.kind = "Move"
    /\ last.step # last.target
    /\ last.step = last.position - width
    /\ last.position % width = width - 1

(* C28: the neighbours looked up for the acting unit are cells of the
   grid that share a side with its cell, all of them, in the order North,
   West, East, South *)
C28_NeighboursInOrder ==
    InTurn =>
        LET p == turn_order[idx]
            nb == Neighbours(p, width)
            found == SelectSeq(nb, LAMBDA q : q # NoPos)
        IN  /\ nb[1] \in {NoPos, p - width}
            /\ nb[2] \in {NoPos, p - 1}
            /\ nb[3] \in {NoPos, p + 1}
            /\ nb[4] \in {NoPos, p + width}
            /\ {found[k] : k \in 1..Len(found)} = {q \in DOMAIN entities : Adjacent(width, p, q)}

(* the cells of the slots already processed in this round *)
EarlierSlots == {turn_order[i] : i \in 1..(idx - 2)}

(* C29: a unit's action is decided on the grid as it is when its turn
   begins, with the moves and deaths of the earlier turns of the round in
   it: it attacks exactly when an enemy stands beside it now, the
   distances it moves by are those of the present grid (a cell is entered
   only if Empty now), and the cell it steps into is Empty now *)
C29_TurnSeesPresentGrid ==
    [][(SlotStep /\ pc' # "panic" /\ IsUnit(entities[turn_order[idx]])) =>
        LET p == turn_order[idx]
            d == Distances(entities, width, p)
        IN  /\ (last'.kind = "Attack") <=> (EnemiesAround(entities, width, entities[p].kind, p) # {})
            /\ last'.kind \in {"Move", "Unreachable", "NotFound"} =>
                   \A c \in DOMAIN entities \ {p} :
                       IF d[c] < Size(entities) /\ d[c] < UNREACHABLE
                       THEN pathfinding'[c] = d[c]
                       ELSE pathfinding'[c] = UNREACHABLE
            /\ last'.kind = "Move" => entities[last'.step] = Empty]_vars

(* a unit stepped into a cell that a unit earlier in the round had left *)
C29_Witness ==
    /\ pc = "turns"
    /\ idx > 2
    /\ last.kind = "Move"
    /\ last.step \in EarlierSlots

(* one faction has units on the board and the other has none *)
OneFactionLeft(ent) == (Alive(ent, "Elf") = {}) # (Alive(ent, "Goblin") = {})

(* the map the run started from holds units of both factions *)
StartedWithBoth ==
    \E i, j \in 1..Len(input) : input[i] = "E" /\ input[j] = "G"

(* C31: once a faction that was on the map has lost its last unit, no
   turn is an attack or a move and the run is not aborted; the round of
   the death may be completed, but no later round is: the run returns in
   the round of the death or in the next, reporting that round's count *)
C31_EndsAfterLastDeath ==
    [][(StartedWithBoth /\ pc \in {"round", "turns"} /\ OneFactionLeft(entities)) =>
        /\ pc' # "panic"
        /\ SlotStep => last'.kind \notin {"Attack", "Move"}
        /\ (pc = "turns" /\ pc' = "round") => Cardinality(Units(entities)) < Len(turn_order)
        /\ pc' = "done" => result'.round = round]_vars

(* C32: on a map with a unit, some unit is on the board in every state
   after parsing; a unit leaves the board only in an attack made while a
   unit of the other faction stands beside it, and that unit stays *)
C32_SomeUnitAlive ==
    [][((\E i \in 1..Len(input) : input[i] \in {"E", "G"}) /\ pc' \notin {"parse", "error"}) =>
        /\ Units(entities') # {}
        /\ \A q \in Units(entities) :
               (entities'[q] = Empty /\ last'.kind # "Move") =>
                   /\ SlotStep /\ last'.kind = "Attack"
                   /\ \E r \in EnemiesAround(entities, width, entities[q].kind, q) :
                          entities'[r] = entities[r]]_vars

C32_Witness ==
    /\ last.kind = "Attack"
    /\ entities[last.target] = Empty
    /\ Cardinality(Units(entities)) = 1
    /\ Len(turn_order) > 2

(* C33: once the board is built no step changes the number of cells, the
   width, or which cells are Walls *)
C33_WallsAndSizeFixed ==
    [][pc # "parse" =>
        /\ DOMAIN entities' = DOMAIN entities
        /\ width' = width
        /\ Alive(entities', "Wall") = Alive(entities, "Wall")]_vars

C33_Witness ==
    /\ pc = "done"
    /\ result.round > 0
    /\ Alive(entities, "Wall") = Alive(ParseEntities(input), "Wall")
    /\ \E c \in Alive(entities, "Wall") : \E q \in DOMAIN entities :
           /\ Adjacent(width, c, q)
           /\ entities[q] = Empty
           /\ IsUnit(ParseEntities(input)[q])

====
